---- MODULE Spec2Model ----
(***************************************************************************)
(* Roku rhythm remote pad: the relay server (server/server.js) and the     *)
(* client session manager (the useRokuSocket hook) as state machines.      *)
(*                                                                         *)
(* Spec        is the relay server: connections, registry, target address, *)
(*             inbound frames, forwards to the downstream device.          *)
(* SpecSession is the session manager: sockets it creates, reconnect       *)
(*             timers, status and backoff delay.                           *)
(***************************************************************************)
EXTENDS Integers, Sequences, FiniteSets, TLC

VARIABLES
  running,        \* the relay's Node process is alive
  unhandled,      \* an async message handler ended in an unhandled rejection
  activeRokuIp,   \* server.js:58  let activeRokuIp
  conns,          \* every WebSocket the server accepted, in accept order
  clientsByIp,    \* server.js:61  Map<clientIp, WebSocket> (0: no entry)
  sent,           \* per connection: the ws.send calls made on it, in order
  requests,       \* one record per sendToRoku call, in call order
  lastFrame,      \* what the handler logged in the last step, if it handled a frame
  restResp,       \* the side-channel response written by the last step, if any
  load,           \* the events the relay's environment may still produce
  status,         \* hook: useState<ConnectionStatus>
  wsRef,          \* hook: wsRef.current (0: null)
  reconnectDelay, \* hook: reconnectDelay.current
  reconnectTimer, \* hook: reconnectTimer.current (0: null)
  intentionalClose, \* hook: intentionalClose.current
  connectingRef,  \* hook: connectingRef.current
  currentRokuIp,  \* hook: currentRokuIp.current
  serverUrl,      \* hook: the serverUrl prop, and serverUrlRef.current
  effectUrl,      \* hook: the serverUrl the installed connect effect ran with
  rokuIp,         \* hook: the rokuIp prop
  work,           \* hook: the caller's operations still to come in this run
  mounted,        \* hook: the connect effect is installed
  sockets,        \* every WebSocket the hook created, in creation order
  timers,         \* every reconnect timer the hook set, in creation order
  failures,       \* history: connections lost or failed in a row, since the
                  \* last open or manual reconnect
  other,          \* a second instance of the hook: its refs, sockets and timers
  link,           \* per accepted connection: the hook socket at its other end
                  \* and the number of that socket's frames the relay received
  note            \* history: per hook socket and frame, the local target when
                  \* the frame was sent

relayVars == <<running, unhandled, activeRokuIp, conns, clientsByIp, sent,
               requests, lastFrame, restResp, load>>
sessVars == <<status, wsRef, reconnectDelay, reconnectTimer, intentionalClose,
              connectingRef, currentRokuIp, serverUrl, effectUrl, rokuIp, work,
              mounted, sockets, timers, failures>>
e2eVars == <<other, link, note>>
vars == <<relayVars, sessVars, e2eVars>>

\* ------------------------------------------------------------------ bounds
MaxConns == 2      \* connections the relay accepts in one run
MaxReqs == 2       \* commands forwarded in a run that never sets the target
MaxTargetReqs == 1 \* commands forwarded in a run that sets the target
MaxSets == 1       \* set-roku-ip frames applied in a run that sets the target
MaxDrops == 1      \* frames the handler rejects in a run that sets the target
MaxRests == 2      \* side-channel requests in a run that uses the side channel
MaxRestConns == 1  \* connections accepted in a run that uses the side channel
MaxSockets == 3    \* sockets the session manager creates in one run
MaxTimers == 3     \* reconnect timers the session manager sets in one run
MaxMounts == 2     \* times the component mounts in one run
MaxUrlChanges == 1 \* renders with a new serverUrl prop in one run
MaxReconnects == 2 \* manual reconnects in one run
MaxRenders == 1    \* renders with a rokuIp prop in one run
MaxRetargets == 2  \* renders with a new serverUrl prop in a run that also
                   \* reconnects by hand
MaxBackoffSockets == 6 \* sockets created in a run that only retries
MaxBackoffTimers == 5  \* reconnect timers set in a run that only retries
MaxDuoConns == 4   \* connections the relay accepts from two hooks
MaxCmdConns == 2   \* connections the relay accepts from a hook that sends
MaxCmdSockets == 2 \* sockets a hook that sends commands opens
MaxCmdSends == 1   \* commands a hook sends to the relay
MaxE2EReqs == 1    \* commands the relay forwards in a run with the hook
MaxE2ESets == 2    \* set-roku-ip frames applied in a run with the hook
MaxSetIps == 1     \* setRokuIp calls in one run
MaxSends == 2      \* sendKey calls in one run

\* --------------------------------------------------------------- constants
CONNECTING == 0
OPEN == 1
CLOSING == 2
CLOSED == 3

Undefined == "<undefined>"   \* a field a JSON value does not carry
NoIp == ""                   \* ROKU_IP unset: process.env.ROKU_IP || ""
RokuIps == {"10.0.0.5", "10.0.0.6"}
Identities == {"A", "B"}     \* req.socket.remoteAddress

VALID_ACTIONS == {"keydown", "keyup", "keypress"}
VALID_KEYS == {"Left", "Right", "Up", "Down", "Select", "Back", "Home", "Rev",
               "Fwd", "Play", "InstantReplay", "Info"}

\* what inbound frames carry in this model
ActionInputs == {"keydown", "key-down", Undefined}
KeyInputs == {"Left", Undefined}
IpInputs == RokuIps \cup {NoIp, Undefined}
StatusCodes == {200, 404}
TransportErrors == {"connect ECONNREFUSED"}

\* JSON.parse of the frame: it throws ("invalid"), yields null, or yields a
\* value whose type/ip/action/key fields are read (absent fields: Undefined)
BadFrame == [json |-> "invalid", type |-> Undefined, ip |-> Undefined,
             action |-> Undefined, key |-> Undefined]
NullFrame == [json |-> "null", type |-> Undefined, ip |-> Undefined,
              action |-> Undefined, key |-> Undefined]
\* retarget frames (which may carry a command's fields too) and command frames
SetFrames == [json : {"value"}, type : {"set-roku-ip"}, ip : IpInputs,
              action : {"keydown", Undefined}, key : {"Left", Undefined}]
CmdFrames == [json : {"value"}, type : {Undefined}, ip : {Undefined},
              action : ActionInputs, key : KeyInputs]
Frames == {BadFrame, NullFrame} \cup SetFrames \cup CmdFrames

\* a test that takes the empty string for a value
Truthy_Defined(v) == v # Undefined

\* JavaScript truthiness of a string-or-undefined value
Truthy(v) == v # Undefined /\ v # ""

\* ------------------------------------------------------------ relay: types
ConfigMsg(ip, ok) == [type |-> "config", rokuIp |-> ip, message |-> <<>>,
                      delivered |-> ok]
ErrorMsg(text, ok) == [type |-> "error", rokuIp |-> Undefined,
                       message |-> <<"Roku unreachable: ", text>>,
                       delivered |-> ok]

Pending == [state |-> "pending", statusCode |-> 0, message |-> ""]
Fulfilled(code) == [state |-> "fulfilled", statusCode |-> code, message |-> ""]
Rejected(text) == [state |-> "rejected", statusCode |-> 0, message |-> text]


NewRequest(c, host, m, n, p) ==
  [conn |-> c, hostname |-> host, path |-> <<m.action, m.key>>,
   attempts |-> n, promise |-> p, destroyed |-> FALSE, errorEmitted |-> FALSE]

NoRestResp == [status |-> 0, rokuIp |-> Undefined, error |-> ""]

\* ------------------------------------------------- relay: library semantics
\* ws.send(data): transmitted when the socket is OPEN, dropped (no throw) when
\* it is CLOSING or CLOSED; the call is recorded either way
WsSend(c, msg) ==
  [sent EXCEPT ![c] = Append(@, [msg EXCEPT !.delivered =
                                   (conns[c].readyState = OPEN)])]

\* ws.close() on a socket that is CONNECTING or OPEN starts the closing
\* handshake; the socket keeps emitting the frames the peer sent before its
\* own close frame
WsClose(cs, c) ==
  [cs EXCEPT ![c].readyState = CLOSING, ![c].evicted = TRUE]

\* a socket emits "message" until the peer's close frame or the close event
CanReceive(c) == conns[c].receiving

\* a promise that takes every outcome it is given
Settle_Overwrite(p, outcome) == outcome

\* a promise settles once: resolve/reject on a settled promise do nothing
Settle(p, outcome) == IF p.state = "pending" THEN outcome ELSE p

\* a step of the relay that handles no inbound frame and answers no
\* side-channel request; the session manager is another process
NoFrame == lastFrame' = "none"
NoRest == restResp' = NoRestResp
RelayOnly == UNCHANGED sessVars

\* ------------------------------------------------------ relay: connections
\* a relay that never closes the connection it replaces
CloseExisting_Never(clientIp) == conns

\* server.js:122-126
CloseExisting(clientIp) ==
  LET existingWs == clientsByIp[clientIp] IN
  IF existingWs # 0 /\ conns[existingWs].readyState <= 1
  THEN WsClose(conns, existingWs)
  ELSE conns

\* server.js:127
Register(clientIp, ws) == [clientsByIp EXCEPT ![clientIp] = ws]

\* a snapshot that carries the target the server started with
Snapshot_Startup == ConfigMsg(NoIp, TRUE)

\* server.js:134-138 (serverTime is not modelled)
Snapshot == ConfigMsg(activeRokuIp, TRUE)

\* server.js:118-138  wss.on("connection")
Connection(clientIp) ==
  /\ running
  /\ load.conns > 0
  /\ load' = [load EXCEPT !.conns = @ - 1]
  /\ LET ws == Len(conns) + 1 IN
     /\ conns' = Append(CloseExisting(clientIp),
                        [ip |-> clientIp, readyState |-> OPEN,
                         evicted |-> FALSE, receiving |-> TRUE])
     /\ clientsByIp' = Register(clientIp, ws)
     /\ sent' = Append(sent, <<Snapshot>>)
  /\ UNCHANGED <<running, unhandled, activeRokuIp, requests>>
  /\ NoFrame /\ NoRest /\ RelayOnly

\* the peer's close frame arrives: ws answers it and the socket is CLOSING
PeerCloseFrame(c) ==
  /\ running
  /\ c \in DOMAIN conns
  /\ CanReceive(c)
  /\ conns' = [conns EXCEPT ![c].readyState = CLOSING, ![c].receiving = FALSE]
  /\ UNCHANGED <<running, unhandled, activeRokuIp, clientsByIp, sent, requests, load>>
  /\ NoFrame /\ NoRest /\ RelayOnly

\* a close handler that leaves the registry as it is
Unregister_Never(clientIp, ws) == clientsByIp

\* a close handler without the guard of server.js:190
Unregister_Unguarded(clientIp, ws) == [clientsByIp EXCEPT ![clientIp] = 0]

\* server.js:190-192
Unregister(clientIp, ws) ==
  IF clientsByIp[clientIp] = ws
  THEN [clientsByIp EXCEPT ![clientIp] = 0]
  ELSE clientsByIp

\* server.js:188-194  ws.on("close"): the socket is CLOSED when it fires
Close(c) ==
  /\ running
  /\ c \in DOMAIN conns
  /\ conns[c].readyState # CLOSED
  /\ conns' = [conns EXCEPT ![c].readyState = CLOSED, ![c].receiving = FALSE]
  /\ clientsByIp' = Unregister(conns[c].ip, c)
  /\ UNCHANGED <<running, unhandled, activeRokuIp, sent, requests, load>>
  /\ NoFrame /\ NoRest /\ RelayOnly

\* --------------------------------------------------- relay: inbound frames
\* server.js:145-150
ParseThrows(m) == m.json = "invalid"

\* server.js:153: msg.type on null throws a TypeError inside the async handler
ReadThrows(m) == m.json = "null"

\* a test that takes any set-roku-ip message, whatever its ip
IsSetRokuIp_AnyIp(m) == m.type = "set-roku-ip"

\* server.js:153
IsSetRokuIp(m) == m.type = "set-roku-ip" /\ Truthy(m.ip)

\* server.js:163
ActionOk(m) == m.action \in VALID_ACTIONS

\* a handler that accepts any key
KeyOk_Any(m) == TRUE

\* server.js:167
KeyOk(m) == m.key \in VALID_KEYS

\* a sendToRoku without the guard of server.js:77-80
SendToRoku_Unguarded(c, m) == NewRequest(c, activeRokuIp, m, 1, Pending)

\* server.js:75-95,114  sendToRoku up to req.end()
SendToRoku(c, m) ==
  IF ~Truthy(activeRokuIp)
  THEN NewRequest(c, NoIp, m, 0, Rejected("No Roku IP configured"))
  ELSE NewRequest(c, activeRokuIp, m, 1, Pending)

\* a handler whose catch block only logs
Resume_Silent(c, p) == sent

\* a handler that also reports a status other than 200 and 202 as an error
Resume_RejectStatus(c, p) ==
  IF p.state = "rejected"
  THEN WsSend(c, ErrorMsg(p.message, TRUE))
  ELSE IF p.state = "fulfilled" /\ p.statusCode \notin {200, 202}
       THEN WsSend(c, ErrorMsg("bad status", TRUE))
       ELSE sent

\* a handler that reports a failure on every connection
Resume_Broadcast(c, p) ==
  IF p.state = "rejected"
  THEN [d \in DOMAIN sent |->
          Append(sent[d], ErrorMsg(p.message, conns[d].readyState = OPEN))]
  ELSE sent

\* server.js:177-185: the handler resumes after the await, as a microtask of
\* the callback that settled the promise p; only the catch block sends
Resume(c, p) ==
  IF p.state = "rejected"
  THEN WsSend(c, ErrorMsg(p.message, TRUE))
  ELSE sent

\* server.js:147-149
DropInvalidJson(c, m) ==
  /\ ParseThrows(m)
  /\ load.drops > 0
  /\ load' = [load EXCEPT !.drops = @ - 1]
  /\ lastFrame' = "Invalid JSON"
  /\ UNCHANGED <<running, unhandled, activeRokuIp, conns, clientsByIp, sent,
                 requests>>
  /\ NoRest /\ RelayOnly

\* server.js:153 on null: the handler's promise rejects and nothing handles
\* it; Node 18 ends the process on an unhandled rejection (README.md:15)
ThrowOnNull(c, m) ==
  /\ ~ParseThrows(m) /\ ReadThrows(m)
  /\ load.drops > 0
  /\ load' = [load EXCEPT !.drops = @ - 1]
  /\ unhandled' = TRUE
  /\ running' = FALSE
  /\ lastFrame' = "TypeError"
  /\ UNCHANGED <<activeRokuIp, conns, clientsByIp, sent, requests>>
  /\ NoRest /\ RelayOnly

\* server.js:153-158
SetRokuIpWs(c, m) ==
  /\ ~ParseThrows(m) /\ ~ReadThrows(m) /\ IsSetRokuIp(m)
  /\ load.sets > 0
  /\ load' = [load EXCEPT !.sets = @ - 1]
  /\ activeRokuIp' = m.ip
  /\ sent' = WsSend(c, ConfigMsg(m.ip, TRUE))
  /\ lastFrame' = "Roku IP updated via WebSocket"
  /\ UNCHANGED <<running, unhandled, conns, clientsByIp, requests>>
  /\ NoRest /\ RelayOnly

\* server.js:163-166
DropInvalidAction(c, m) ==
  /\ ~ParseThrows(m) /\ ~ReadThrows(m) /\ ~IsSetRokuIp(m)
  /\ load.drops > 0
  /\ load' = [load EXCEPT !.drops = @ - 1]
  /\ ~ActionOk(m)
  /\ lastFrame' = "Invalid action"
  /\ UNCHANGED <<running, unhandled, activeRokuIp, conns, clientsByIp, sent,
                 requests>>
  /\ NoRest /\ RelayOnly

\* server.js:167-170
DropInvalidKey(c, m) ==
  /\ ~ParseThrows(m) /\ ~ReadThrows(m) /\ ~IsSetRokuIp(m)
  /\ load.drops > 0
  /\ load' = [load EXCEPT !.drops = @ - 1]
  /\ ActionOk(m) /\ ~KeyOk(m)
  /\ lastFrame' = "Invalid key"
  /\ UNCHANGED <<running, unhandled, activeRokuIp, conns, clientsByIp, sent,
                 requests>>
  /\ NoRest /\ RelayOnly

\* a handler that issues the newest request ahead of the earlier ones
Forward_Overtaking(c, m) ==
  /\ ~ParseThrows(m) /\ ~ReadThrows(m) /\ ~IsSetRokuIp(m)
  /\ ActionOk(m) /\ KeyOk(m)
  /\ load.reqs > 0
  /\ load' = [load EXCEPT !.reqs = @ - 1]
  /\ requests' = <<SendToRoku(c, m)>> \o requests
  /\ sent' = Resume(c, SendToRoku(c, m).promise)
  /\ lastFrame' = "Forwarding to Roku"
  /\ UNCHANGED <<running, unhandled, activeRokuIp, conns, clientsByIp>>
  /\ NoRest /\ RelayOnly

\* server.js:172-185: sendToRoku is called; with no target its promise is
\* rejected at once and the catch block runs before any other event
Forward(c, m) ==
  /\ ~ParseThrows(m) /\ ~ReadThrows(m) /\ ~IsSetRokuIp(m)
  /\ ActionOk(m) /\ KeyOk(m)
  /\ load.reqs > 0
  /\ load' = [load EXCEPT !.reqs = @ - 1]
  /\ requests' = Append(requests, SendToRoku(c, m))
  /\ sent' = Resume(c, SendToRoku(c, m).promise)
  /\ lastFrame' = "Forwarding to Roku"
  /\ UNCHANGED <<running, unhandled, activeRokuIp, conns, clientsByIp>>
  /\ NoRest /\ RelayOnly

\* server.js:140-186  ws.on("message")
HandleMessage(c, m) ==
  /\ running
  /\ c \in DOMAIN conns
  /\ CanReceive(c)
  /\ \/ DropInvalidJson(c, m)
     \/ ThrowOnNull(c, m)
     \/ SetRokuIpWs(c, m)
     \/ DropInvalidAction(c, m)
     \/ DropInvalidKey(c, m)
     \/ Forward(c, m)

\* ------------------------------------------------ relay: downstream request
\* what the response callback does to the promise (server.js:96-102)
OnResponse(p, code) == Settle(p, Fulfilled(code))

\* what the "error" listener does to the promise (server.js:105-108)
OnError(p, text) == Settle(p, Rejected(text))

\* a timeout listener that only destroys the request, so that the later
\* "error" event is what rejects the promise
OnTimeout_HangUp(p) == Settle(p, Rejected("socket hang up"))

\* what the "timeout" listener does to the promise (server.js:109-113)
OnTimeout(p) == Settle(p, Rejected("Roku request timed out"))

\* the suspended handler of request r resumes only when this event is the one
\* that settles its promise
ResumeIfSettledNow(r, p) ==
  IF requests[r].promise.state = "pending" /\ p.state # "pending"
  THEN Resume(requests[r].conn, p)
  ELSE sent

\* server.js:96-102: the device answers with any status code
Response(r, code) ==
  /\ running
  /\ r \in DOMAIN requests
  /\ requests[r].attempts > 0
  /\ requests[r].promise.state = "pending"
  /\ ~requests[r].destroyed /\ ~requests[r].errorEmitted
  /\ requests' = [requests EXCEPT ![r].promise = OnResponse(@, code)]
  /\ sent' = ResumeIfSettledNow(r, OnResponse(requests[r].promise, code))
  /\ UNCHANGED <<running, unhandled, activeRokuIp, conns, clientsByIp, load>>
  /\ NoFrame /\ NoRest /\ RelayOnly

\* an "error" listener that issues the request again instead of rejecting
TransportError_Retry(r, text) ==
  /\ running
  /\ r \in DOMAIN requests
  /\ requests[r].attempts = 1
  /\ requests[r].promise.state = "pending"
  /\ ~requests[r].destroyed /\ ~requests[r].errorEmitted
  /\ requests' = [requests EXCEPT ![r].attempts = @ + 1]
  /\ UNCHANGED <<running, unhandled, activeRokuIp, conns, clientsByIp, sent, load>>
  /\ NoFrame /\ NoRest /\ RelayOnly

\* server.js:105-108: a transport failure before any response
TransportError(r, text) ==
  /\ running
  /\ r \in DOMAIN requests
  /\ requests[r].attempts > 0
  /\ requests[r].promise.state = "pending"
  /\ ~requests[r].destroyed /\ ~requests[r].errorEmitted
  /\ requests' = [requests EXCEPT ![r].promise = OnError(@, text),
                                  ![r].errorEmitted = TRUE]
  /\ sent' = ResumeIfSettledNow(r, OnError(requests[r].promise, text))
  /\ UNCHANGED <<running, unhandled, activeRokuIp, conns, clientsByIp, load>>
  /\ NoFrame /\ NoRest /\ RelayOnly

\* server.js:109-113: 500 ms of socket inactivity, before or after a response
Timeout(r) ==
  /\ running
  /\ r \in DOMAIN requests
  /\ requests[r].attempts > 0
  /\ ~requests[r].destroyed /\ ~requests[r].errorEmitted
  /\ requests' = [requests EXCEPT ![r].promise = OnTimeout(@),
                                  ![r].destroyed = TRUE]
  /\ sent' = ResumeIfSettledNow(r, OnTimeout(requests[r].promise))
  /\ UNCHANGED <<running, unhandled, activeRokuIp, conns, clientsByIp, load>>
  /\ NoFrame /\ NoRest /\ RelayOnly

\* server.js:105-108 after req.destroy(): a request destroyed before its
\* response emits "error" (socket hang up) on a later tick
AbortError(r) ==
  /\ running
  /\ r \in DOMAIN requests
  /\ requests[r].destroyed /\ ~requests[r].errorEmitted
  /\ requests[r].promise.state = "rejected"
  /\ requests' = [requests EXCEPT ![r].promise = OnError(@, "socket hang up"),
                                  ![r].errorEmitted = TRUE]
  /\ sent' = ResumeIfSettledNow(r, OnError(requests[r].promise, "socket hang up"))
  /\ UNCHANGED <<running, unhandled, activeRokuIp, conns, clientsByIp, load>>
  /\ NoFrame /\ NoRest /\ RelayOnly

\* ---------------------------------------------------- relay: side channel
\* server.js:38-40
Health ==
  /\ running
  /\ load.rests > 0
  /\ load' = [load EXCEPT !.rests = @ - 1]
  /\ restResp' = [status |-> 200, rokuIp |-> activeRokuIp, error |-> ""]
  /\ UNCHANGED <<running, unhandled, activeRokuIp, conns, clientsByIp, sent,
                 requests>>
  /\ NoFrame /\ RelayOnly

\* an endpoint without the check of server.js:45
SetRokuIpRest_Unchecked(ip) ==
  /\ running
  /\ load.rests > 0
  /\ load' = [load EXCEPT !.rests = @ - 1]
  /\ activeRokuIp' = ip
  /\ restResp' = [status |-> 200, rokuIp |-> ip, error |-> ""]
  /\ UNCHANGED <<running, unhandled, conns, clientsByIp, sent, requests>>
  /\ NoFrame /\ RelayOnly

\* an endpoint that keeps a target that is already configured
SetRokuIpRest_FirstWins(ip) ==
  /\ running
  /\ load.rests > 0
  /\ load' = [load EXCEPT !.rests = @ - 1]
  /\ IF ~Truthy(ip)
     THEN /\ restResp' = [status |-> 400, rokuIp |-> Undefined,
                          error |-> "Missing ip field"]
          /\ UNCHANGED activeRokuIp
     ELSE /\ activeRokuIp' = IF Truthy(activeRokuIp) THEN activeRokuIp ELSE ip
          /\ restResp' = [status |-> 200, rokuIp |-> ip, error |-> ""]
  /\ UNCHANGED <<running, unhandled, conns, clientsByIp, sent, requests>>
  /\ NoFrame /\ RelayOnly

\* server.js:43-49
SetRokuIpRest(ip) ==
  /\ running
  /\ load.rests > 0
  /\ load' = [load EXCEPT !.rests = @ - 1]
  /\ IF ~Truthy(ip)
     THEN /\ restResp' = [status |-> 400, rokuIp |-> Undefined,
                          error |-> "Missing ip field"]
          /\ UNCHANGED activeRokuIp
     ELSE /\ activeRokuIp' = ip
          /\ restResp' = [status |-> 200, rokuIp |-> ip, error |-> ""]
  /\ UNCHANGED <<running, unhandled, conns, clientsByIp, sent, requests>>
  /\ NoFrame /\ RelayOnly

\* ------------------------------------------------------- session: state
\* part_002:40-42
INITIAL_RECONNECT_DELAY == 1000
MAX_RECONNECT_DELAY == 10000
RECONNECT_BACKOFF == 2

ServerUrls == {"ws://relay:3002", "ws://other:3002"}
KeyInputsSent == {<<"Left", "keydown">>}

Min(a, b) == IF a <= b THEN a ELSE b

\* the hook's refs and state as one record, so that connect() and the socket
\* handlers are functions of it
Sess ==
  [status |-> status, wsRef |-> wsRef, reconnectDelay |-> reconnectDelay,
   reconnectTimer |-> reconnectTimer, intentionalClose |-> intentionalClose,
   connectingRef |-> connectingRef, currentRokuIp |-> currentRokuIp,
   sockets |-> sockets, timers |-> timers]

Becomes(r) ==
  /\ status' = r.status
  /\ wsRef' = r.wsRef
  /\ reconnectDelay' = r.reconnectDelay
  /\ reconnectTimer' = r.reconnectTimer
  /\ intentionalClose' = r.intentionalClose
  /\ connectingRef' = r.connectingRef
  /\ currentRokuIp' = r.currentRokuIp
  /\ sockets' = r.sockets
  /\ timers' = r.timers

SessOnly == UNCHANGED relayVars

\* --------------------------------------------- session: browser semantics
\* new WebSocket(url): CONNECTING, nothing sent; lost records that the socket
\* ended without close() having been called on it, noUrl that it was closed
\* by a connect() that found no server URL
NewSocket(url) == [readyState |-> CONNECTING, url |-> url, out |-> <<>>,
                   lost |-> FALSE, noUrl |-> FALSE]

\* WebSocket.close(): a socket that is CONNECTING or OPEN becomes CLOSING and
\* its close event fires later; otherwise nothing happens
SocketClose(ss, s) ==
  IF ss[s].readyState \in {CONNECTING, OPEN}
  THEN [ss EXCEPT ![s].readyState = CLOSING]
  ELSE ss

\* WebSocket.send(data) on an OPEN socket
SocketSend(ss, s, msg) == [ss EXCEPT ![s].out = Append(@, msg)]

\* setTimeout(callback, delay): a new pending timer; its id is its index
SetTimeout(ts, delay) == Append(ts, [state |-> "pending", delay |-> delay])

\* clearTimeout(id): a pending timer never fires; otherwise nothing happens
ClearTimeout(ts, t) ==
  IF ts[t].state = "pending" THEN [ts EXCEPT ![t].state = "cleared"] ELSE ts

SetRokuIpMsg(ip) == [type |-> "set-roku-ip", ip |-> ip, action |-> Undefined,
                     key |-> Undefined]
KeyMsg(key, action) == [type |-> Undefined, ip |-> Undefined, action |-> action,
                        key |-> key]

\* ---------------------------------------------------- session: the hook
\* part_002:84-88
ClearPendingReconnect(r) ==
  IF r.reconnectTimer # 0
  THEN [r EXCEPT !.timers = ClearTimeout(@, r.reconnectTimer),
                 !.reconnectTimer = 0]
  ELSE r

\* a connect() that drops its reference to the existing socket without
\* closing it
CleanUpExisting_NoClose(r) ==
  IF r.wsRef # 0
  THEN [r EXCEPT !.intentionalClose = TRUE, !.wsRef = 0]
  ELSE r

\* part_002:90-95
CleanUpExisting(r) ==
  IF r.wsRef # 0
  THEN [r EXCEPT !.intentionalClose = TRUE,
                 !.sockets = SocketClose(@, r.wsRef),
                 !.wsRef = 0]
  ELSE r

\* part_002:102-107,168
OpenSocket(r, url) ==
  [r EXCEPT !.status = "connecting",
            !.intentionalClose = FALSE,
            !.connectingRef = TRUE,
            !.sockets = Append(@, NewSocket(url)),
            !.wsRef = Len(r.sockets) + 1]

\* part_002:75-169  connect()
connect(r, url) ==
  IF r.connectingRef THEN r
  ELSE LET r2 == CleanUpExisting(ClearPendingReconnect(r)) IN
       IF url = ""
       THEN IF r.wsRef # 0 /\ r.sockets[r.wsRef].readyState <= OPEN
            THEN [r2 EXCEPT !.sockets[r.wsRef].noUrl = TRUE]
            ELSE r2
       ELSE OpenSocket(r2, url)

\* an open handler that transmits a command sendKey had to drop earlier
onopen_Flush(r, s) ==
  LET r1 == [r EXCEPT !.connectingRef = FALSE,
                      !.status = "connected",
                      !.reconnectDelay = INITIAL_RECONNECT_DELAY]
      r2 == IF Truthy(r1.currentRokuIp)
            THEN [r1 EXCEPT !.sockets = SocketSend(@, s, SetRokuIpMsg(r1.currentRokuIp))]
            ELSE r1
  IN IF work.sends < MaxSends
     THEN [r2 EXCEPT !.sockets = SocketSend(@, s, KeyMsg("Left", "keydown"))]
     ELSE r2

\* an open handler that announces no target
onopen_NoTarget(r, s) ==
  [r EXCEPT !.connectingRef = FALSE,
            !.status = "connected",
            !.reconnectDelay = INITIAL_RECONNECT_DELAY]

\* part_002:109-124  ws.onopen
onopen(r, s) ==
  LET r1 == [r EXCEPT !.connectingRef = FALSE,
                      !.status = "connected",
                      !.reconnectDelay = INITIAL_RECONNECT_DELAY]
  IN IF Truthy(r1.currentRokuIp)
     THEN [r1 EXCEPT !.sockets = SocketSend(@, s, SetRokuIpMsg(r1.currentRokuIp))]
     ELSE r1

\* a close handler that never schedules a reconnect
ScheduleReconnect_Never(r) == r

\* part_002:148-159: the reconnect is scheduled with the current delay
ScheduleReconnect(r) ==
  IF ~r.intentionalClose
  THEN [r EXCEPT !.timers = SetTimeout(@, r.reconnectDelay),
                 !.reconnectTimer = Len(r.timers) + 1]
  ELSE r

\* a close handler that clears the reference whichever socket closed
onclose_ClearsAlways(r, s) ==
  ScheduleReconnect([r EXCEPT !.connectingRef = FALSE,
                              !.wsRef = 0,
                              !.status = "disconnected"])

\* part_002:140-160  ws.onclose
onclose(r, s) ==
  ScheduleReconnect([r EXCEPT !.connectingRef = FALSE,
                              !.wsRef = IF @ = s THEN 0 ELSE @,
                              !.status = "disconnected"])

\* part_002:162-166  ws.onerror
onerror(r, s) == [r EXCEPT !.connectingRef = FALSE]

\* a timer callback that doubles the delay without the ceiling
ontimer_Uncapped(r, url) ==
  connect([r EXCEPT !.reconnectDelay = @ * RECONNECT_BACKOFF], url)

\* part_002:152-158: the timer callback
ontimer(r, url) ==
  connect([r EXCEPT !.reconnectDelay =
                      Min(@ * RECONNECT_BACKOFF, MAX_RECONNECT_DELAY)], url)

\* part_002:209-219: the effect's cleanup
cleanup(r) ==
  LET r1 == ClearPendingReconnect([r EXCEPT !.intentionalClose = TRUE]) IN
  IF r1.wsRef # 0
  THEN [r1 EXCEPT !.sockets = SocketClose(@, r1.wsRef), !.wsRef = 0]
  ELSE r1

\* part_002:198-201  reconnect()
reconnect(r, url) ==
  connect([r EXCEPT !.reconnectDelay = INITIAL_RECONNECT_DELAY], url)

\* a step may create a socket or set a timer only within the bounds
WithinBounds(r) ==
  /\ Len(r.sockets) <= work.sockets
  /\ Len(r.timers) <= work.timers

\* ------------------------------------------------------ session: actions
\* part_002:204-207: the component mounts and the effect runs
Mount ==
  /\ ~mounted
  /\ work.mounts > 0
  /\ work' = [work EXCEPT !.mounts = @ - 1]
  /\ mounted' = TRUE
  /\ LET r == IF serverUrl # "" THEN connect(Sess, serverUrl) ELSE Sess IN
     WithinBounds(r) /\ Becomes(r)
  /\ effectUrl' = serverUrl
  /\ UNCHANGED <<serverUrl, rokuIp, failures>>
  /\ SessOnly

\* part_002:209-219: the component unmounts
Unmount ==
  /\ mounted
  /\ effectUrl = serverUrl
  /\ mounted' = FALSE
  /\ Becomes(cleanup(Sess))
  /\ UNCHANGED <<serverUrl, effectUrl, rokuIp, work, failures>>
  /\ SessOnly

\* part_002:64,67,204-220: a render with a new serverUrl prop, then the old
\* effect's cleanup and the new effect
ChangeServerUrl(url) ==
  /\ mounted
  /\ effectUrl = serverUrl
  /\ url # serverUrl
  /\ work.urls > 0
  /\ work' = [work EXCEPT !.urls = @ - 1]
  /\ serverUrl' = url
  /\ effectUrl' = url
  /\ LET r1 == cleanup([Sess EXCEPT !.currentRokuIp = rokuIp])
         r == IF url # "" THEN connect(r1, url) ELSE r1
     IN WithinBounds(r) /\ Becomes(r)
  /\ UNCHANGED <<rokuIp, mounted, failures>>
  /\ SessOnly

\* part_002:64,67: a render with a new serverUrl prop writes the refs; the
\* effect of part_002:204-220 is run later, after the browser has painted.
\* React runs the effects of a render before it renders again
RenderServerUrl(url) ==
  /\ mounted
  /\ effectUrl = serverUrl
  /\ url # serverUrl
  /\ work.urls > 0
  /\ work' = [work EXCEPT !.urls = @ - 1]
  /\ serverUrl' = url
  /\ currentRokuIp' = rokuIp
  /\ UNCHANGED <<status, wsRef, reconnectDelay, reconnectTimer, intentionalClose,
                 connectingRef, effectUrl, rokuIp, mounted, sockets, timers,
                 failures>>
  /\ SessOnly

\* part_002:204-220: the effect whose serverUrl dependency changed is run:
\* the old effect's cleanup, then the new effect
FlushEffect ==
  /\ mounted
  /\ effectUrl # serverUrl
  /\ effectUrl' = serverUrl
  /\ LET r1 == cleanup(Sess)
         r == IF serverUrl # "" THEN connect(r1, serverUrl) ELSE r1
     IN WithinBounds(r) /\ Becomes(r)
  /\ UNCHANGED <<serverUrl, rokuIp, mounted, work, failures>>
  /\ SessOnly

\* part_002:64: any render copies the rokuIp prop into the ref
Render(ip) ==
  /\ mounted
  /\ effectUrl = serverUrl
  /\ work.renders > 0
  /\ work' = [work EXCEPT !.renders = @ - 1]
  /\ rokuIp' = ip
  /\ currentRokuIp' = ip
  /\ UNCHANGED <<status, wsRef, reconnectDelay, reconnectTimer, intentionalClose,
                 connectingRef, serverUrl, effectUrl, mounted, sockets, timers, failures>>
  /\ SessOnly

\* part_002:198-201: the caller asks for a reconnect
Reconnect ==
  /\ mounted
  /\ work.reconnects > 0
  /\ work' = [work EXCEPT !.reconnects = @ - 1]
  /\ LET r == reconnect(Sess, serverUrl) IN
     WithinBounds(r) /\ Becomes(r)
  /\ failures' = 0
  /\ UNCHANGED <<serverUrl, effectUrl, rokuIp, mounted>>
  /\ SessOnly

\* part_002:172-186  sendKey
SendKey(key, action) ==
  /\ mounted
  /\ wsRef # 0
  /\ sockets[wsRef].readyState = OPEN
  /\ work.sends > 0
  /\ work' = [work EXCEPT !.sends = @ - 1]
  /\ sockets' = SocketSend(sockets, wsRef, KeyMsg(key, action))
  /\ UNCHANGED <<status, wsRef, reconnectDelay, reconnectTimer, intentionalClose,
                 connectingRef, currentRokuIp, serverUrl, effectUrl, rokuIp, mounted, timers,
                 failures>>
  /\ SessOnly

\* part_002:172-181  sendKey with no usable socket: the command is dropped
SendKeyDropped(key, action) ==
  /\ mounted
  /\ IF wsRef = 0 THEN TRUE ELSE sockets[wsRef].readyState # OPEN
  /\ work.sends > 0
  /\ work' = [work EXCEPT !.sends = @ - 1]
  /\ UNCHANGED <<status, wsRef, reconnectDelay, reconnectTimer, intentionalClose,
                 connectingRef, currentRokuIp, serverUrl, effectUrl, rokuIp, mounted,
                 sockets, timers, failures>>
  /\ SessOnly

\* part_002:189-195  setRokuIpOnRelay
SetRokuIpOnRelay(ip) ==
  /\ mounted
  /\ work.sets > 0
  /\ work' = [work EXCEPT !.sets = @ - 1]
  /\ currentRokuIp' = ip
  /\ sockets' = IF wsRef # 0 /\ sockets[wsRef].readyState = OPEN
                THEN SocketSend(sockets, wsRef, SetRokuIpMsg(ip))
                ELSE sockets
  /\ UNCHANGED <<status, wsRef, reconnectDelay, reconnectTimer, intentionalClose,
                 connectingRef, serverUrl, effectUrl, rokuIp, mounted, timers, failures>>
  /\ SessOnly

\* the connection is established: the socket is OPEN and its open event fires
SocketOpened(s) ==
  /\ s \in DOMAIN sockets
  /\ sockets[s].readyState = CONNECTING
  /\ Becomes(onopen([Sess EXCEPT !.sockets[s].readyState = OPEN], s))
  /\ failures' = 0
  /\ UNCHANGED <<serverUrl, effectUrl, rokuIp, mounted, work>>
  /\ SessOnly

\* the connection ends (closing handshake done, or lost): the socket is
\* CLOSED; when it failed its error event fires, and then its close event
SocketClosed(s, failed) ==
  /\ s \in DOMAIN sockets
  /\ sockets[s].readyState # CLOSED
  /\ LET r0 == [Sess EXCEPT !.sockets[s].readyState = CLOSED,
                            !.sockets[s].lost = (@ \/ sockets[s].readyState <= OPEN)]
         r == onclose(IF failed THEN onerror(r0, s) ELSE r0, s)
     IN WithinBounds(r) /\ Becomes(r)
  /\ failures' = IF sockets[s].readyState <= OPEN THEN failures + 1
                  ELSE failures
  /\ UNCHANGED <<serverUrl, effectUrl, rokuIp, mounted, work>>
  /\ SessOnly

\* a pending reconnect timer fires
TimerFired(t) ==
  /\ t \in DOMAIN timers
  /\ timers[t].state = "pending"
  /\ LET r == ontimer([Sess EXCEPT !.timers[t].state = "fired"], serverUrl) IN
     WithinBounds(r) /\ Becomes(r)
  /\ UNCHANGED <<serverUrl, effectUrl, rokuIp, mounted, work, failures>>
  /\ SessOnly

\* part_002:51-62: the hook before its component mounts
SessIdle ==
  /\ status = "disconnected"
  /\ wsRef = 0
  /\ reconnectDelay = INITIAL_RECONNECT_DELAY
  /\ reconnectTimer = 0
  /\ intentionalClose = FALSE
  /\ connectingRef = FALSE
  /\ mounted = FALSE
  /\ failures = 0
  /\ sockets = <<>>
  /\ timers = <<>>

\* what the caller does in one run: a lifecycle of mounts and URL changes,
\* manual reconnects, or messages
LifecycleWork == [mounts |-> MaxMounts, urls |-> MaxUrlChanges, reconnects |-> 0,
                  renders |-> 0, sets |-> 0, sends |-> 0,
                  sockets |-> MaxSockets, timers |-> MaxTimers,
                  peers |-> 0]
ReconnectWork == [mounts |-> 1, urls |-> 0, reconnects |-> MaxReconnects,
                  renders |-> 0, sets |-> 0, sends |-> 0,
                  sockets |-> MaxSockets, timers |-> MaxTimers,
                  peers |-> 0]
MessageWork == [mounts |-> 1, urls |-> 0, reconnects |-> 0,
                renders |-> MaxRenders, sets |-> MaxSetIps, sends |-> MaxSends,
                sockets |-> MaxSockets, timers |-> MaxTimers,
                  peers |-> 0]
\* the server address is edited while the caller also reconnects by hand
RetargetWork == [mounts |-> 1, urls |-> MaxRetargets, reconnects |-> 1,
                 renders |-> 0, sets |-> 0, sends |-> 0,
                 sockets |-> MaxSockets, timers |-> MaxTimers,
                  peers |-> 0]
\* the caller only mounts; the relay is down for as long as it takes
BackoffWork == [mounts |-> 1, urls |-> 0, reconnects |-> 0,
                renders |-> 0, sets |-> 0, sends |-> 0,
                sockets |-> MaxBackoffSockets, timers |-> MaxBackoffTimers,
                  peers |-> 0]
NoWork == [mounts |-> 0, urls |-> 0, reconnects |-> 0, renders |-> 0,
           sets |-> 0, sends |-> 0, sockets |-> 0, timers |-> 0, peers |-> 0]
SessWork == {LifecycleWork, ReconnectWork, MessageWork, RetargetWork,
             BackoffWork}

\* part_002:45-67: the first render, with the props the caller passes
SessInit ==
  /\ SessIdle
  /\ serverUrl \in {"", "ws://relay:3002"}
  /\ effectUrl = serverUrl
  /\ rokuIp \in {NoIp, "10.0.0.5"}
  /\ currentRokuIp = rokuIp
  /\ work \in SessWork

\* ----------------------------------------------------- relay: specification
\* the bounded workloads a run is checked under: one that forwards commands
\* to a fixed target, one that also sets the target over a connection, and
\* one that also uses the side channel
ForwardLoad == [conns |-> MaxConns, reqs |-> MaxReqs, sets |-> 0, rests |-> 0,
                drops |-> 0]
TargetLoad == [conns |-> MaxConns, reqs |-> MaxTargetReqs, sets |-> MaxSets,
               rests |-> 0, drops |-> MaxDrops]
RestLoad == [conns |-> MaxRestConns, reqs |-> MaxTargetReqs, sets |-> MaxSets,
             rests |-> MaxRests, drops |-> 0]
Workloads == {ForwardLoad, TargetLoad, RestLoad}

\* server.js:21,58,61: the state when the server starts listening
RelayInit ==
  /\ running = TRUE
  /\ unhandled = FALSE
  /\ activeRokuIp \in {NoIp, "10.0.0.5"}
  /\ conns = <<>>
  /\ clientsByIp = [ip \in Identities |-> 0]
  /\ sent = <<>>
  /\ requests = <<>>
  /\ lastFrame = "none"
  /\ restResp = NoRestResp
  /\ load \in Workloads

\* no second hook, no connection between a hook and the relay
E2EIdle ==
  /\ other = [status |-> "disconnected", wsRef |-> 0,
              reconnectDelay |-> INITIAL_RECONNECT_DELAY, reconnectTimer |-> 0,
              intentionalClose |-> FALSE, connectingRef |-> FALSE,
              currentRokuIp |-> NoIp, sockets |-> <<>>, timers |-> <<>>]
  /\ link = <<>>
  /\ note = <<>>

Init ==
  /\ RelayInit
  /\ E2EIdle
  /\ SessIdle /\ serverUrl = "" /\ effectUrl = "" /\ rokuIp = NoIp
  /\ currentRokuIp = NoIp
  /\ work = NoWork

RelayNext ==
  \/ \E clientIp \in Identities : Connection(clientIp)
  \/ \E c \in DOMAIN conns : PeerCloseFrame(c)
  \/ \E c \in DOMAIN conns : Close(c)
  \/ \E c \in DOMAIN conns, m \in Frames : HandleMessage(c, m)
  \/ \E r \in DOMAIN requests, code \in StatusCodes : Response(r, code)
  \/ \E r \in DOMAIN requests, text \in TransportErrors : TransportError(r, text)
  \/ \E r \in DOMAIN requests : Timeout(r)
  \/ \E r \in DOMAIN requests : AbortError(r)
  \/ Health
  \/ \E ip \in IpInputs : SetRokuIpRest(ip)

\* the relay alone: no hook is connected
Next == RelayNext /\ UNCHANGED e2eVars

Spec == Init /\ [][Next]_vars

\* --------------------------------------------------- session: specification
\* the relay as the session manager's specification leaves it: started, idle
RelayIdle ==
  /\ running = TRUE
  /\ unhandled = FALSE
  /\ activeRokuIp = NoIp
  /\ conns = <<>>
  /\ clientsByIp = [ip \in Identities |-> 0]
  /\ sent = <<>>
  /\ requests = <<>>
  /\ lastFrame = "none"
  /\ restResp = NoRestResp
  /\ load = [conns |-> 0, reqs |-> 0, sets |-> 0, rests |-> 0, drops |-> 0]

InitSession == RelayIdle /\ SessInit /\ E2EIdle

SessionNext ==
  \/ Mount
  \/ Unmount
  \/ \E url \in ServerUrls \cup {""} : ChangeServerUrl(url)
  \/ \E url \in ServerUrls \cup {""} : RenderServerUrl(url)
  \/ FlushEffect
  \/ \E ip \in {NoIp, "10.0.0.5"} : Render(ip)
  \/ Reconnect
  \/ \E ka \in KeyInputsSent : SendKey(ka[1], ka[2])
  \/ \E ka \in KeyInputsSent : SendKeyDropped(ka[1], ka[2])
  \/ \E ip \in RokuIps : SetRokuIpOnRelay(ip)
  \/ \E s \in DOMAIN sockets : SocketOpened(s)
  \/ \E s \in DOMAIN sockets, failed \in BOOLEAN : SocketClosed(s, failed)
  \/ \E t \in DOMAIN timers : TimerFired(t)

\* the hook alone, its sockets driven by the browser
NextSession == SessionNext /\ UNCHANGED e2eVars

SpecSession == InitSession /\ [][NextSession]_vars

\* a pending timer of the browser fires once its delay has passed, and React
\* runs an effect whose dependency changed
SpecSessionFair ==
  /\ InitSession
  /\ [][NextSession]_vars
  /\ \A t \in 1..MaxBackoffTimers :
       WF_vars(TimerFired(t) /\ UNCHANGED e2eVars)
  /\ WF_vars(FlushEffect /\ UNCHANGED e2eVars)

\* ------------------------------------------------- the hook and the relay
\* the address the relay listens on (server.js:21, GameController.tsx:27)
RelayUrl == "ws://relay:3002"

\* JSON.stringify in the hook (part_002:117,183,193), JSON.parse in the relay
\* (server.js:145): a field the message does not carry is undefined
AsFrame(msg) ==
  [json |-> "value", type |-> msg.type, ip |-> msg.ip, action |-> msg.action,
   key |-> msg.key]

\* the sockets of a hook: 1 is the hook of the session variables, 2 the other
SocketsOf(k) == IF k = 1 THEN sockets ELSE other.sockets

\* the relay's connection a socket of a hook ended up as, if it was accepted
LinkOf(k, s) == {c \in DOMAIN link : link[c].mgr = k /\ link[c].sock = s}

\* the local target (part_002:64,190) at the time each frame was sent
NoteOf(ss, old, ip) ==
  [s \in DOMAIN ss |->
     [i \in DOMAIN ss[s].out |->
        IF s \in DOMAIN old /\ i \in DOMAIN old[s] THEN old[s][i] ELSE ip]]

\* a step of the hook, next to the relay
Hook(A) ==
  /\ A
  /\ note' = NoteOf(sockets', note, currentRokuIp')
  /\ UNCHANGED <<other, link>>

\* the close event of a socket is due: a socket the relay never accepted was
\* closed by the hook; an accepted one has had its open event, unless the hook
\* closed it first, and has the relay's close frame, sent when the relay
\* evicted it (server.js:125) or as the answer to the hook's own
CloseDue(k, s) ==
  IF LinkOf(k, s) = {}
  THEN SocketsOf(k)[s].readyState = CLOSING
  ELSE /\ SocketsOf(k)[s].readyState # CONNECTING
       /\ \A c \in LinkOf(k, s) : conns[c].readyState >= CLOSING

\* server.js:118-138: the relay accepts the connection a hook is opening;
\* both hooks reach it from the same address
Accept(k, s) ==
  /\ s \in DOMAIN SocketsOf(k)
  /\ SocketsOf(k)[s].readyState = CONNECTING
  /\ SocketsOf(k)[s].url = RelayUrl
  /\ LinkOf(k, s) = {}
  /\ Connection("A")
  /\ link' = Append(link, [mgr |-> k, sock |-> s, taken |-> 0])
  /\ UNCHANGED <<other, note>>

\* server.js:140-186: the next frame a hook sent arrives, in the order sent
Deliver(c) ==
  /\ c \in DOMAIN link
  /\ LET out == SocketsOf(link[c].mgr)[link[c].sock].out IN
     /\ link[c].taken < Len(out)
     /\ HandleMessage(c, AsFrame(out[link[c].taken + 1]))
  /\ link' = [link EXCEPT ![c].taken = @ + 1]
  /\ UNCHANGED <<other, note>>

\* the hook's close frame arrives, after the frames sent before it
RelayPeerClose(c) ==
  /\ c \in DOMAIN link
  /\ LET sock == SocketsOf(link[c].mgr)[link[c].sock] IN
     /\ sock.readyState >= CLOSING
     /\ link[c].taken = Len(sock.out)
  /\ PeerCloseFrame(c)
  /\ UNCHANGED e2eVars

\* server.js:188-194: the closing handshake is done
RelayClose(c) ==
  /\ c \in DOMAIN link
  /\ conns[c].readyState = CLOSING
  /\ ~conns[c].receiving
  /\ Close(c)
  /\ UNCHANGED e2eVars

\* part_002:109-124: the relay accepted the connection
HookOpened(s) ==
  /\ LinkOf(1, s) # {}
  /\ Hook(SocketOpened(s))

\* part_002:140-160: the relay is reachable, a connection ends only by a
\* closing handshake
HookClosed(s) ==
  /\ s \in DOMAIN sockets
  /\ sockets[s].readyState # CLOSED
  /\ CloseDue(1, s)
  /\ Hook(SocketClosed(s, FALSE))

\* a step of the second hook
OtherOnly == UNCHANGED <<relayVars, sessVars, link, note>>

\* part_002:204-207: the second hook mounts with the relay's address and no
\* target
OtherMount ==
  /\ work.peers > 0
  /\ other.sockets = <<>>
  /\ other' = connect(other, RelayUrl)
  /\ OtherOnly

\* part_002:109-124
OtherOpened(s) ==
  /\ s \in DOMAIN other.sockets
  /\ other.sockets[s].readyState = CONNECTING
  /\ LinkOf(2, s) # {}
  /\ other' = onopen([other EXCEPT !.sockets[s].readyState = OPEN], s)
  /\ OtherOnly

\* part_002:140-160
OtherClosed(s) ==
  /\ s \in DOMAIN other.sockets
  /\ other.sockets[s].readyState # CLOSED
  /\ CloseDue(2, s)
  /\ other' = onclose([other EXCEPT
                         !.sockets[s].readyState = CLOSED,
                         !.sockets[s].lost =
                           (@ \/ other.sockets[s].readyState <= OPEN)], s)
  /\ OtherOnly

\* part_002:152-158
OtherTimerFired(t) ==
  /\ t \in DOMAIN other.timers
  /\ other.timers[t].state = "pending"
  /\ other' = ontimer([other EXCEPT !.timers[t].state = "fired"], RelayUrl)
  /\ OtherOnly

\* what the caller does next to the relay: it retargets and sends commands,
\* or it only mounts while a second hook mounts at the same address
CommandWork == [mounts |-> 1, urls |-> 0, reconnects |-> 1,
                renders |-> MaxRenders, sets |-> MaxSetIps,
                sends |-> MaxCmdSends, sockets |-> MaxCmdSockets,
                timers |-> MaxCmdSockets, peers |-> 0]
DuoWork == [mounts |-> 1, urls |-> 0, reconnects |-> 0,
            renders |-> 0, sets |-> 0, sends |-> 0,
            sockets |-> MaxDuoConns, timers |-> MaxDuoConns, peers |-> 1]
\* what the relay takes in each of them
CommandLoad == [conns |-> MaxCmdConns, reqs |-> MaxE2EReqs,
                sets |-> MaxE2ESets, rests |-> 0, drops |-> 0]
DuoLoad == [conns |-> MaxDuoConns, reqs |-> 0, sets |-> MaxE2ESets,
            rests |-> 0, drops |-> 0]

\* server.js:21,58,61 and part_002:45-67: the relay is listening, the hook has
\* rendered with the relay's address
InitEndToEnd ==
  /\ running = TRUE
  /\ unhandled = FALSE
  /\ activeRokuIp \in {NoIp, "10.0.0.5"}
  /\ conns = <<>>
  /\ clientsByIp = [ip \in Identities |-> 0]
  /\ sent = <<>>
  /\ requests = <<>>
  /\ lastFrame = "none"
  /\ restResp = NoRestResp
  /\ work \in {CommandWork, DuoWork}
  /\ load = IF work = CommandWork THEN CommandLoad ELSE DuoLoad
  /\ SessIdle
  /\ serverUrl = RelayUrl
  /\ effectUrl = serverUrl
  /\ rokuIp \in {NoIp, "10.0.0.5"}
  /\ currentRokuIp = rokuIp
  /\ E2EIdle

NextEndToEnd ==
  \/ Hook(Mount)
  \/ \E ip \in {NoIp, "10.0.0.5"} : Hook(Render(ip))
  \/ Hook(Reconnect)
  \/ \E ka \in KeyInputsSent : Hook(SendKey(ka[1], ka[2]))
  \/ \E ka \in KeyInputsSent : Hook(SendKeyDropped(ka[1], ka[2]))
  \/ \E ip \in RokuIps : Hook(SetRokuIpOnRelay(ip))
  \/ \E s \in DOMAIN sockets : HookOpened(s)
  \/ \E s \in DOMAIN sockets : HookClosed(s)
  \/ \E t \in DOMAIN timers : Hook(TimerFired(t))
  \/ OtherMount
  \/ \E s \in DOMAIN other.sockets : OtherOpened(s)
  \/ \E s \in DOMAIN other.sockets : OtherClosed(s)
  \/ \E t \in DOMAIN other.timers : OtherTimerFired(t)
  \/ \E k \in {1, 2}, s \in 1..MaxDuoConns : Accept(k, s)
  \/ \E c \in DOMAIN link : Deliver(c)
  \/ \E c \in DOMAIN link : RelayPeerClose(c)
  \/ \E c \in DOMAIN link : RelayClose(c)
  \/ \E r \in DOMAIN requests, code \in StatusCodes : Response(r, code) /\ UNCHANGED e2eVars

SpecEndToEnd == InitEndToEnd /\ [][NextEndToEnd]_vars


\* ================================================================= claims
\* a frame that reaches command validation: it parses to a non-null value and
\* is not an applied set-roku-ip message
IsCommandFrame(m) ==
  m.json = "value" /\ ~(m.type = "set-roku-ip" /\ m.ip \in RokuIps)

NoIpError == <<"Roku unreachable: ", "No Roku IP configured">>
TimedOutError == <<"Roku unreachable: ", "Roku request timed out">>

ErrorsOn(c, text) ==
  {i \in 1..Len(sent[c]) : sent[c][i].type = "error" /\ sent[c][i].message = text}

\* every live (CONNECTING or OPEN) connection is the registry entry of its
\* identity, and every entry belongs to its identity
OneLivePerIdentity ==
  /\ \A c \in DOMAIN conns :
       conns[c].readyState <= OPEN => clientsByIp[conns[c].ip] = c
  /\ \A ip \in Identities :
       clientsByIp[ip] # 0 =>
         clientsByIp[ip] \in DOMAIN conns /\ conns[clientsByIp[ip]].ip = ip

\* C1: each client IP has at most one live registered connection at any
\* time; a connection arriving from an IP whose registered connection is
\* CONNECTING or OPEN closes that connection and becomes the registry entry.
C1_OneConnectionPerIdentity ==
  [][/\ OneLivePerIdentity'
     /\ Len(conns') = Len(conns) + 1 =>
          LET ws == Len(conns')
              old == clientsByIp[conns'[ws].ip]
          IN /\ clientsByIp'[conns'[ws].ip] = ws
             /\ conns'[ws].readyState = OPEN
             /\ (old # 0 /\ conns[old].readyState <= OPEN) =>
                   conns'[old].readyState >= CLOSING]_vars

C1_Witness ==
  \E c1, c2 \in DOMAIN conns :
    /\ c1 < c2 /\ conns[c1].ip = conns[c2].ip
    /\ conns[c1].evicted /\ conns[c1].readyState = CLOSING
    /\ clientsByIp[conns[c2].ip] = c2 /\ conns[c2].readyState = OPEN

\* C2: when a connection's close event fires, the registry entry of its
\* identity is removed only if it still refers to that connection; the close
\* of an evicted connection leaves the entry of the newer connection alone.
C2_StaleCloseGuard ==
  [][\A c \in DOMAIN conns :
       (conns[c].readyState # CLOSED /\ conns'[c].readyState = CLOSED) =>
         \A ip \in Identities :
           clientsByIp'[ip] = IF clientsByIp[ip] = c THEN 0 ELSE clientsByIp[ip]]_vars

C2_Witness ==
  \E c1, c2 \in DOMAIN conns :
    /\ c1 < c2 /\ conns[c1].ip = conns[c2].ip
    /\ conns[c1].evicted /\ conns[c1].readyState = CLOSED
    /\ clientsByIp[conns[c2].ip] = c2 /\ conns[c2].readyState = OPEN

\* C3: handling a command frame whose action is outside VALID_ACTIONS or
\* whose key is outside VALID_KEYS issues no downstream request, sends nothing
\* on any connection, and leaves the target and the registry unchanged.
C3_InvalidCommandDropped ==
  [][\A c \in DOMAIN conns, m \in Frames :
       (/\ IsCommandFrame(m)
        /\ (m.action \notin VALID_ACTIONS \/ m.key \notin VALID_KEYS)
        /\ HandleMessage(c, m)) =>
         /\ requests' = requests
         /\ sent' = sent
         /\ activeRokuIp' = activeRokuIp
         /\ clientsByIp' = clientsByIp
         /\ conns' = conns]_vars

C3_Witness ==
  /\ lastFrame \in {"Invalid action", "Invalid key"}
  /\ \E c \in DOMAIN conns : conns[c].readyState = OPEN

\* C4: forwarding a valid command while the target is empty starts no HTTP
\* request, and exactly one error "Roku unreachable: No Roku IP configured"
\* is sent on the originating connection (transmitted when it is OPEN).
C4_NoTargetFailsAtOnce ==
  [][/\ \A c \in DOMAIN conns, m \in Frames :
          (/\ activeRokuIp = NoIp
           /\ IsCommandFrame(m)
           /\ m.action \in VALID_ACTIONS /\ m.key \in VALID_KEYS
           /\ HandleMessage(c, m)) =>
            /\ Len(requests') = Len(requests) + 1
            /\ requests'[Len(requests')].attempts = 0
            /\ requests'[Len(requests')].promise.state = "rejected"
            /\ sent' = [sent EXCEPT ![c] =
                          Append(@, [type |-> "error", rokuIp |-> Undefined,
                                     message |-> NoIpError,
                                     delivered |-> (conns[c].readyState = OPEN)])]
     /\ \A r \in DOMAIN requests :
          requests[r].attempts = 0 => requests'[r] = requests[r]
     /\ \A c \in DOMAIN conns' :
          Cardinality({i \in 1..Len(sent'[c]) :
                         sent'[c][i].type = "error" /\ sent'[c][i].message = NoIpError})
          = Cardinality({r \in DOMAIN requests' :
                           requests'[r].conn = c /\ requests'[r].hostname = NoIp})]_vars

C4_Witness ==
  \E r \in DOMAIN requests :
    /\ requests[r].hostname = NoIp /\ requests[r].attempts = 0
    /\ \E i \in ErrorsOn(requests[r].conn, NoIpError) :
         sent[requests[r].conn][i].delivered

\* C5: a request that times out is aborted and reported on the originating
\* connection as an error whose text is "Roku request timed out"; the target
\* and the registry are left as they were.
C5_TimeoutReported ==
  [][\A r \in DOMAIN requests :
       (Timeout(r) /\ requests[r].promise.state = "pending") =>
         LET c == requests[r].conn IN
         /\ requests'[r].destroyed
         /\ requests'[r].promise.state = "rejected"
         /\ requests'[r].promise.message = "Roku request timed out"
         /\ sent' = [sent EXCEPT ![c] =
                       Append(@, [type |-> "error", rokuIp |-> Undefined,
                                  message |-> TimedOutError,
                                  delivered |-> (conns[c].readyState = OPEN)])]
         /\ activeRokuIp' = activeRokuIp
         /\ clientsByIp' = clientsByIp
         /\ conns' = conns]_vars

C5_Witness ==
  \E r \in DOMAIN requests :
    /\ requests[r].destroyed
    /\ requests[r].promise.message = "Roku request timed out"
    /\ ErrorsOn(requests[r].conn, TimedOutError) # {}
    /\ clientsByIp[conns[requests[r].conn].ip] = requests[r].conn

\* C6: no command is queued or retried: every step leaves the requests made
\* so far in place with their attempt counts, adds at most one request, and
\* no request ever has more than one HTTP attempt, whatever its outcome.
C6_NoRetry ==
  [][/\ Len(requests') <= Len(requests) + 1
     /\ \A r \in DOMAIN requests :
          /\ r \in DOMAIN requests'
          /\ requests'[r].attempts = requests[r].attempts
          /\ requests'[r].conn = requests[r].conn
          /\ requests'[r].hostname = requests[r].hostname
          /\ requests[r].promise.state # "pending" =>
               requests'[r].promise = requests[r].promise
     /\ \A r \in DOMAIN requests' : requests'[r].attempts <= 1]_vars

C6_Witness ==
  \E r1, r2 \in DOMAIN requests :
    /\ r1 # r2
    /\ requests[r1].attempts = 1 /\ requests[r1].promise.state = "rejected"
    /\ requests[r1].errorEmitted
    /\ requests[r2].attempts = 1 /\ requests[r2].promise.statusCode = 404

\* C7: any HTTP status code, 4xx and 5xx included, completes the attempt: the
\* step that delivers the response sends nothing and starts nothing, and an
\* error message is sent only by a step that rejects a request's promise.
C7_AnyStatusCompletes ==
  [][/\ \A r \in DOMAIN requests, code \in StatusCodes :
          Response(r, code) =>
            /\ requests'[r].promise = [state |-> "fulfilled",
                                       statusCode |-> code, message |-> ""]
            /\ requests'[r].attempts = requests[r].attempts
            /\ Len(requests') = Len(requests)
            /\ sent' = sent
     /\ \A c \in DOMAIN conns :
          (Len(sent'[c]) > Len(sent[c]) /\ sent'[c][Len(sent'[c])].type = "error") =>
            \E r \in DOMAIN requests' :
              /\ requests'[r].conn = c
              /\ requests'[r].promise.state = "rejected"
              /\ (r \in DOMAIN requests => requests[r].promise.state = "pending")]_vars

C7_Witness ==
  \E r \in DOMAIN requests :
    /\ requests[r].promise.state = "fulfilled"
    /\ requests[r].promise.statusCode = 404
    /\ \A i \in 1..Len(sent[requests[r].conn]) :
         sent[requests[r].conn][i].type # "error"

\* C8: a failing forward started by connection c sends its error on c alone
\* and leaves every other request as it was, so the other forwards in flight
\* stay pending and settle with their own outcome.
C8_ErrorsAreLocal ==
  [][\A r \in DOMAIN requests' :
       (/\ requests'[r].promise.state = "rejected"
        /\ (r \in DOMAIN requests => requests[r].promise.state = "pending")) =>
         /\ \A d \in DOMAIN conns :
              d # requests'[r].conn => sent'[d] = sent[d]
         /\ Len(sent'[requests'[r].conn]) = Len(sent[requests'[r].conn]) + 1
         /\ \A q \in DOMAIN requests : q # r => requests'[q] = requests[q]
         /\ conns' = conns]_vars

C8_Witness ==
  \E r1, r2 \in DOMAIN requests :
    /\ requests[r1].conn # requests[r2].conn
    /\ requests[r1].promise.state = "rejected" /\ requests[r1].attempts = 1
    /\ requests[r2].promise.state = "fulfilled"
    /\ conns[requests[r2].conn].readyState = OPEN
    /\ Len(sent[requests[r2].conn]) = 1
    /\ Len(sent[requests[r1].conn]) = 2

\* C9: no inbound frame stops the relay: handling any frame ends without an
\* unhandled exception and the server keeps running.
C9_NoFrameStopsTheRelay == ~unhandled /\ running

PendingTimers == {t \in DOMAIN timers : timers[t].state = "pending"}

\* C10: in every reachable state of the session manager at most one reconnect
\* timer is pending, and a pending timer is the one recorded in
\* reconnectTimer.
C10_OnePendingTrackedTimer ==
  /\ Cardinality(PendingTimers) <= 1
  /\ \A t \in PendingTimers : reconnectTimer = t

\* a socket on which connect() called close() and then opened a newer one
Superseded(s) ==
  /\ sockets[s].readyState = CLOSING
  /\ wsRef # 0 /\ wsRef # s

\* C11: when connect() has closed a connection and opened a new one, the
\* later close event of the superseded connection schedules no reconnect,
\* leaves the status alone and leaves the in-flight guard of the new attempt
\* alone.
C11_SupersededCloseIsSilent ==
  [][\A s \in DOMAIN sockets :
       (Superseded(s) /\ SocketClosed(s, FALSE)) =>
         /\ timers' = timers
         /\ reconnectTimer' = reconnectTimer
         /\ status' = status
         /\ connectingRef' = connectingRef]_vars

InFlight == \E s \in DOMAIN sockets : sockets[s].readyState = CONNECTING

\* C12: a call of connect() while a socket of the session is still CONNECTING
\* is a no-op: no socket is created, the socket in flight is not closed, and
\* the status and the timer are unchanged (the delay is written by the
\* callers of connect(), never by connect()).
C12_ConnectInFlightIsNoOp ==
  [][(InFlight /\ (Reconnect \/ \E t \in DOMAIN timers : TimerFired(t))) =>
       /\ sockets' = sockets
       /\ wsRef' = wsRef
       /\ status' = status
       /\ reconnectTimer' = reconnectTimer
       /\ \A t \in DOMAIN timers :
            timers[t].state = "cleared" <=> timers'[t].state = "cleared"]_vars

LiveSockets == {s \in DOMAIN sockets : sockets[s].readyState \in {CONNECTING, OPEN}}

\* C13: in every reachable state at most one socket the session manager
\* created is CONNECTING or OPEN, and it is the one in wsRef; every other
\* socket is CLOSING (close() was called on it) or CLOSED.
C13_OneLiveSocket ==
  /\ Cardinality(LiveSockets) <= 1
  /\ \A s \in LiveSockets : wsRef = s

C13_Witness ==
  /\ Len(sockets) = 3
  /\ sockets[1].readyState = CLOSED
  /\ sockets[2].readyState = CLOSING
  /\ sockets[3].readyState = OPEN

\* C14: once the effect's cleanup has run and while the effect is not
\* installed again, no reconnect timer is pending, no socket is CONNECTING or
\* OPEN, and no socket is created.
C14_ShutdownIsFinal ==
  [][/\ ~mounted' => (PendingTimers' = {} /\ LiveSockets' = {})
     /\ (~mounted /\ ~mounted') => Len(sockets') = Len(sockets)]_vars

RECURSIVE Pow(_, _)
Pow(b, n) == IF n = 0 THEN 1 ELSE b * Pow(b, n - 1)

\* min(floor * factor^(N-1), ceiling)
ScheduledDelay(n) ==
  Min(INITIAL_RECONNECT_DELAY * Pow(RECONNECT_BACKOFF, n - 1), MAX_RECONNECT_DELAY)

\* C15: the reconnect scheduled by the N-th connection failure in a row (no
\* open and no manual reconnect in between) uses the delay
\* min(1000 * 2^(N-1), 10000); the loss of a connection that had opened is
\* the first failure and uses 1000.
C15_BackoffSchedule ==
  [][\A s \in DOMAIN sockets :
       (/\ sockets[s].readyState \in {CONNECTING, OPEN}
        /\ \E failed \in BOOLEAN : SocketClosed(s, failed)
        /\ Len(timers') = Len(timers) + 1) =>
         timers'[Len(timers')].delay = ScheduledDelay(failures')]_vars

\* the key commands transmitted so far: socket and position in its output
KeysSent ==
  {p \in UNION {{<<s, i>> : i \in 1..Len(sockets[s].out)} : s \in DOMAIN sockets} :
     sockets[p[1]].out[p[2]].type = Undefined}

\* C16: sendKey never queues: with no active socket, or one that is not OPEN,
\* it transmits nothing and leaves the session as it is; with an OPEN active
\* socket it appends exactly one {action, key} message to that socket and
\* leaves everything else as it is; no other step transmits a key command.
C16_SendKeyNeverQueues ==
  [][/\ \A ka \in KeyInputsSent :
          SendKey(ka[1], ka[2]) =>
            /\ sockets' = [sockets EXCEPT ![wsRef].out =
                             Append(@, [type |-> Undefined, ip |-> Undefined,
                                        action |-> ka[2], key |-> ka[1]])]
            /\ Sess' = [Sess EXCEPT !.sockets = sockets']
     /\ \A ka \in KeyInputsSent :
          SendKeyDropped(ka[1], ka[2]) => Sess' = Sess
     /\ (\A ka \in KeyInputsSent : ~SendKey(ka[1], ka[2])) => KeysSent' = KeysSent]_vars

C16_Witness ==
  /\ work.sends = 0
  /\ Cardinality(KeysSent) = 1
  /\ Len(sockets) = 2
  /\ sockets[1].out = <<>>
  /\ \E p \in KeysSent : p[1] = 2

\* the newest socket, number k, was lost (it ended without close() called on
\* it), the effect is installed and the server address is not empty
LostAt(k) ==
  /\ Len(sockets) = k
  /\ sockets[k].lost
  /\ mounted
  /\ serverUrl # ""

\* C17: when a connection ends that neither the cleanup nor a superseding
\* connect() closed, and the server address is not empty, the status becomes
\* disconnected and a reconnect is scheduled with the current delay; with
\* timers that fire, and unless the session is shut down first, a new
\* connection attempt follows.
C17_LossTriggersReconnect ==
  /\ [][\A s \in DOMAIN sockets :
          (/\ sockets[s].readyState \in {CONNECTING, OPEN}
           /\ serverUrl # ""
           /\ \E failed \in BOOLEAN : SocketClosed(s, failed)) =>
            /\ status' = "disconnected"
            /\ reconnectTimer' = Len(timers) + 1
            /\ timers' = Append(timers, [state |-> "pending",
                                         delay |-> reconnectDelay])]_vars
  /\ \A k \in 1..(MaxSockets - 1) :
       LostAt(k) ~> (Len(sockets) > k \/ ~mounted \/ serverUrl = "")

C17_Witness ==
  /\ Len(sockets) = 2
  /\ sockets[1].lost
  /\ timers[1].state = "fired"
  /\ sockets[2].readyState = CONNECTING
  /\ mounted

ActiveOpen == wsRef # 0 /\ sockets[wsRef].readyState = OPEN

\* C18: setRokuIp(address) makes address the local target and sends a
\* set-roku-ip message with it at once when the active socket is OPEN, and
\* nothing otherwise; the set-roku-ip message sent when a socket opens carries
\* the local target; and the local target changes only by setRokuIp or by a
\* render with a new rokuIp prop, never by a render with the previous prop.
C18_SetTargetIsKept ==
  [][/\ \A ip \in RokuIps :
          SetRokuIpOnRelay(ip) =>
            /\ currentRokuIp' = ip
            /\ sockets' = IF ActiveOpen
                          THEN [sockets EXCEPT ![wsRef].out =
                                  Append(@, [type |-> "set-roku-ip", ip |-> ip,
                                             action |-> Undefined, key |-> Undefined])]
                          ELSE sockets
     /\ \A s \in DOMAIN sockets :
          (SocketOpened(s) /\ currentRokuIp # NoIp) =>
            sockets'[s].out =
              Append(sockets[s].out, [type |-> "set-roku-ip", ip |-> currentRokuIp,
                                      action |-> Undefined, key |-> Undefined])
     /\ currentRokuIp' # currentRokuIp =>
          \/ \E ip \in RokuIps : SetRokuIpOnRelay(ip)
          \/ rokuIp' # rokuIp]_vars

\* C19: the relay's target is the address of the last non-empty set-target
\* applied, whether it came over a connection or over the REST endpoint, and
\* nothing else changes it; a forward uses the target current when its
\* command is handled and keeps it when the target changes later; the health
\* probe returns the current target.
C19_LastWriterWins ==
  [][/\ \A c \in DOMAIN conns, m \in SetFrames :
          (m.ip \in RokuIps /\ HandleMessage(c, m)) => activeRokuIp' = m.ip
     /\ \A ip \in RokuIps : SetRokuIpRest(ip) => activeRokuIp' = ip
     /\ activeRokuIp' # activeRokuIp =>
          \/ \E c \in DOMAIN conns, m \in SetFrames :
               m.ip = activeRokuIp' /\ m.ip # NoIp /\ HandleMessage(c, m)
          \/ activeRokuIp' # NoIp /\ SetRokuIpRest(activeRokuIp')
     /\ Len(requests') = Len(requests) + 1 =>
          requests'[Len(requests')].hostname = activeRokuIp
     /\ \A r \in DOMAIN requests :
          requests'[r].hostname = requests[r].hostname
     /\ Health => (restResp'.status = 200 /\ restResp'.rokuIp = activeRokuIp)]_vars

C19_Witness ==
  /\ activeRokuIp = "10.0.0.6"
  /\ restResp.status = 200 /\ restResp.rokuIp = "10.0.0.6"
  /\ \E r \in DOMAIN requests :
       /\ requests[r].hostname = "10.0.0.5"
       /\ requests[r].promise.state = "pending"
  /\ \E c \in DOMAIN conns : \E i \in 1..Len(sent[c]) :
       sent[c][i].type = "config" /\ sent[c][i].rokuIp = "10.0.0.6"

\* C20 as stated: the step that settles a forwarded command, with success or
\* with failure, sends a message reporting it on the originating connection.
C20_EveryOutcomeReported ==
  [][\A r \in DOMAIN requests' :
       (/\ requests'[r].promise.state # "pending"
        /\ (r \in DOMAIN requests => requests[r].promise.state = "pending")) =>
         Len(sent'[requests'[r].conn]) = Len(sent[requests'[r].conn]) + 1]_vars

ErrorTexts(c) ==
  {sent[c][i].message : i \in {j \in 1..Len(sent[c]) : sent[c][j].type = "error"}}

\* C20 as amended: the relay reports the failures only. Each connection has
\* been sent one error message per forward of its own that failed, naming
\* the cause of a failed forward of its own, and apart from config messages
\* nothing else: a forward that completed is reported by no message.
C20_FailuresReported ==
  \A c \in DOMAIN conns :
    /\ Cardinality({i \in 1..Len(sent[c]) : sent[c][i].type = "error"})
       = Cardinality({r \in DOMAIN requests :
                        requests[r].conn = c /\ requests[r].promise.state = "rejected"})
    /\ ErrorTexts(c) =
         {<<"Roku unreachable: ", requests[r].promise.message>> :
            r \in {q \in DOMAIN requests :
                     requests[q].conn = c /\ requests[q].promise.state = "rejected"}}
    /\ \A i \in 1..Len(sent[c]) : sent[c][i].type \in {"config", "error"}

C20_Witness ==
  \E r1, r2 \in DOMAIN requests :
    /\ requests[r1].conn = requests[r2].conn
    /\ requests[r1].promise.state = "fulfilled"
    /\ requests[r1].promise.statusCode = 200
    /\ requests[r2].promise.state = "rejected"
    /\ Len(sent[requests[r1].conn]) = 2
    /\ sent[requests[r1].conn][2].type = "error"
    /\ sent[requests[r1].conn][2].delivered

\* C21: a set-roku-ip message with a non-empty address sets the target to it
\* and sends one config message carrying it to the sender and to no other
\* connection; a set-roku-ip message whose address is empty or missing leaves
\* the target as it is.
C21_SetTargetOverConnection ==
  [][\A c \in DOMAIN conns, m \in SetFrames :
       HandleMessage(c, m) =>
         IF m.ip \in RokuIps
         THEN /\ activeRokuIp' = m.ip
              /\ sent' = [sent EXCEPT ![c] =
                            Append(@, [type |-> "config", rokuIp |-> m.ip,
                                       message |-> <<>>,
                                       delivered |-> (conns[c].readyState = OPEN)])]
              /\ requests' = requests
         ELSE activeRokuIp' = activeRokuIp]_vars

C21_Witness ==
  \E c1, c2 \in DOMAIN conns :
    /\ c1 # c2
    /\ activeRokuIp = "10.0.0.6"
    /\ Len(sent[c1]) = 2
    /\ sent[c1][2].type = "config" /\ sent[c1][2].rokuIp = "10.0.0.6"
    /\ sent[c1][2].delivered
    /\ Len(sent[c2]) = 1 /\ sent[c2][1].rokuIp # "10.0.0.6"
    /\ conns[c2].readyState = OPEN

\* C22: the REST endpoint answers a request whose ip is missing or empty with
\* the validation error and leaves the target as it is; it answers a request
\* with a non-empty ip with success and sets the target to that ip.
C22_SideChannelSetTarget ==
  [][\A ip \in IpInputs :
       SetRokuIpRest(ip) =>
         IF ip \in {NoIp, Undefined}
         THEN /\ restResp' = [status |-> 400, rokuIp |-> Undefined,
                              error |-> "Missing ip field"]
              /\ activeRokuIp' = activeRokuIp
         ELSE /\ restResp' = [status |-> 200, rokuIp |-> ip, error |-> ""]
              /\ activeRokuIp' = ip]_vars

C22_Witness ==
  /\ restResp.status = 400
  /\ activeRokuIp = "10.0.0.6"
  /\ load.rests = 0 /\ load.sets = MaxSets

\* C24: a message of type set-roku-ip is never taken for a command: whatever
\* its other fields are, and whether its ip is empty or not, handling it
\* issues no downstream request.
C24_SetTargetIsNoCommand ==
  [][\A c \in DOMAIN conns, m \in SetFrames :
       HandleMessage(c, m) => requests' = requests]_vars

Connecting == {s \in DOMAIN sockets : sockets[s].readyState = CONNECTING}

\* C23: a manual reconnect with a non-empty server address sets the delay to
\* the floor, and when it returns no reconnect timer is pending and exactly
\* one connection attempt is in flight.
C23_ManualReconnect ==
  [][(Reconnect /\ serverUrl # "") =>
       /\ reconnectDelay' = INITIAL_RECONNECT_DELAY
       /\ PendingTimers' = {}
       /\ Cardinality(Connecting') = 1]_vars

\* C25: when a socket opens, the delay becomes the floor and the status
\* connected, nothing was sent on the socket before, and the set-roku-ip
\* message with the local target is sent on it if the target is not empty;
\* what was sent on a socket stays in place, so every sendKey command on the
\* connection comes after that message.
C25_OpenAnnouncesTarget ==
  /\ [][\A s \in DOMAIN sockets :
          SocketOpened(s) =>
            /\ reconnectDelay' = INITIAL_RECONNECT_DELAY
            /\ status' = "connected"
            /\ sockets[s].out = <<>>
            /\ sockets'[s].out = IF currentRokuIp # NoIp
                                 THEN <<SetRokuIpMsg(currentRokuIp)>>
                                 ELSE <<>>]_vars
  /\ [][\A s \in DOMAIN sockets :
          /\ Len(sockets'[s].out) >= Len(sockets[s].out)
          /\ SubSeq(sockets'[s].out, 1, Len(sockets[s].out)) = sockets[s].out]_vars

C25_Witness ==
  /\ Len(sockets) = 2
  /\ Len(timers) = 1
  /\ timers[1].state = "fired"
  /\ status = "connected"
  /\ reconnectDelay = INITIAL_RECONNECT_DELAY
  /\ sockets[2].out = <<SetRokuIpMsg("10.0.0.5"), KeyMsg("Left", "keydown")>>

\* C26: the status becomes connected only from connecting, and the close of
\* a socket that is not the active connection never makes the status
\* disconnected.
C26_StatusStateMachine ==
  [][/\ (status' = "connected" /\ status # "connected") => status = "connecting"
     /\ \A s \in DOMAIN sockets :
          (wsRef # s /\ \E failed \in BOOLEAN : SocketClosed(s, failed)) =>
            (status' = "disconnected" => status = "disconnected")]_vars

\* C27: the reconnect delay is always between the floor and the ceiling, and
\* a step that decreases it is a socket's open or a manual reconnect and sets
\* it to the floor.
C27_DelayBounds ==
  /\ [](reconnectDelay >= INITIAL_RECONNECT_DELAY
          /\ reconnectDelay <= MAX_RECONNECT_DELAY)
  /\ [][reconnectDelay' < reconnectDelay =>
          /\ reconnectDelay' = INITIAL_RECONNECT_DELAY
          /\ Reconnect \/ \E s \in DOMAIN sockets : SocketOpened(s)]_vars

C27_Witness ==
  /\ Len(timers) = 5
  /\ timers[5].state = "fired"
  /\ timers[5].delay = MAX_RECONNECT_DELAY
  /\ reconnectDelay = MAX_RECONNECT_DELAY

\* C28: connect() with an empty server address creates no socket and leaves
\* the status alone; unless an attempt is in flight it still cancels the
\* pending reconnect timer and closes the existing connection; and the close
\* event of a connection it closed schedules no reconnect.
C28_EmptyAddress ==
  /\ [][(serverUrl = "" /\ (Reconnect \/ \E t \in DOMAIN timers : TimerFired(t))) =>
          /\ Len(sockets') = Len(sockets)
          /\ status' = status
          /\ ~connectingRef =>
               /\ reconnectTimer' = 0
               /\ reconnectTimer # 0 => timers'[reconnectTimer].state # "pending"
               /\ wsRef' = 0
               /\ wsRef # 0 => sockets'[wsRef].readyState >= CLOSING]_vars
  /\ [][\A s \in DOMAIN sockets :
          (sockets[s].noUrl /\ \E failed \in BOOLEAN : SocketClosed(s, failed)) =>
            timers' = timers]_vars

\* C29: the step that accepts a connection sends it one config message with
\* the target of that moment; what was sent on a connection stays in place,
\* so that message precedes all others; and any later config message on the
\* connection answers a set-roku-ip frame received on it.
C29_SnapshotFirst ==
  /\ [](\A c \in DOMAIN conns : Len(sent[c]) >= 1 /\ sent[c][1].type = "config")
  /\ [][/\ Len(conns') = Len(conns) + 1 =>
             sent'[Len(conns')] = <<[type |-> "config", rokuIp |-> activeRokuIp,
                                     message |-> <<>>, delivered |-> TRUE]>>
        /\ \A c \in DOMAIN conns :
             /\ Len(sent'[c]) >= Len(sent[c])
             /\ SubSeq(sent'[c], 1, Len(sent[c])) = sent[c]
             /\ (Len(sent'[c]) > Len(sent[c])
                   /\ sent'[c][Len(sent'[c])].type = "config") =>
                  \E m \in SetFrames : HandleMessage(c, m)]_vars

C29_Witness ==
  /\ Len(conns) = 2
  /\ Len(sent[1]) = 2
  /\ sent[1][1].rokuIp = "10.0.0.5"
  /\ sent[1][2].type = "config"
  /\ sent[1][2].rokuIp = "10.0.0.6"
  /\ sent[2][1].rokuIp = "10.0.0.6"

\* C30: once the status is connected and no socket is waiting for its close
\* event, then as long as no connection is lost and the caller does nothing,
\* the status stays connected, no socket is created and no reconnect timer is
\* set.
C30_StableAfterSupersession ==
  [][(/\ status = "connected"
      /\ \A s \in DOMAIN sockets : sockets[s].readyState # CLOSING
      /\ \A s \in DOMAIN sockets : ~sockets'[s].lost
      /\ work' = work /\ mounted' = mounted /\ effectUrl = serverUrl) =>
        /\ status' = "connected"
        /\ Len(sockets') = Len(sockets)
        /\ Len(timers') = Len(timers)]_vars

ErrorCount(c) == Cardinality({i \in 1..Len(sent[c]) : sent[c][i].type = "error"})
RejectedOn(c) ==
  {r \in DOMAIN requests : requests[r].conn = c /\ requests[r].promise.state = "rejected"}

\* C31: a forwarded command settles once: the outcome of a settled request
\* never changes, an event of a settled request (the error raised by the
\* abort after a timeout, a timeout after the response) sends nothing, and
\* each connection holds one error message per rejected request of its own.
C31_SettlesOnce ==
  /\ [](\A c \in DOMAIN conns : ErrorCount(c) = Cardinality(RejectedOn(c)))
  /\ [][\A r \in DOMAIN requests :
          requests[r].promise.state # "pending" =>
            /\ requests'[r].promise = requests[r].promise
            /\ requests'[r] # requests[r] => sent' = sent]_vars

C31_Witness ==
  \E r1, r2 \in DOMAIN requests :
    /\ requests[r1].promise = Rejected("Roku request timed out")
    /\ requests[r1].destroyed /\ requests[r1].errorEmitted
    /\ requests[r2].promise.state = "fulfilled"
    /\ requests[r2].destroyed
    /\ requests[r1].conn = requests[r2].conn
    /\ ErrorCount(requests[r1].conn) = 1

\* C32: a target that is not empty never becomes empty, whatever set-target
\* requests arrive on the side channel and on the connections; and a step
\* that sends the error "No Roku IP configured" is taken with an empty target.
C32_TargetStaysSet ==
  [][/\ activeRokuIp \in RokuIps => activeRokuIp' \in RokuIps
     /\ \A c \in DOMAIN conns :
          (/\ Len(sent'[c]) > Len(sent[c])
           /\ sent'[c][Len(sent'[c])].message = NoIpError) =>
             activeRokuIp = NoIp]_vars

C32_Witness ==
  /\ restResp.status = 400
  /\ activeRokuIp \in RokuIps
  /\ \E c \in DOMAIN conns : ErrorsOn(c, NoIpError) # {}

\* C33: every registry entry is a connection whose close event has not fired
\* yet, and when the close events of all accepted connections have fired the
\* registry is empty.
C33_NoDeadEntries ==
  /\ \A ip \in Identities :
       clientsByIp[ip] # 0 =>
         /\ clientsByIp[ip] \in DOMAIN conns
         /\ conns[clientsByIp[ip]].readyState # CLOSED
  /\ (\A c \in DOMAIN conns : conns[c].readyState = CLOSED) =>
       \A ip \in Identities : clientsByIp[ip] = 0

C33_Witness ==
  /\ Len(conns) = 2
  /\ conns[1].ip = conns[2].ip
  /\ conns[1].evicted
  /\ conns[1].readyState = CLOSED /\ conns[2].readyState = CLOSED
  /\ \A ip \in Identities : clientsByIp[ip] = 0

\* C37: the step that receives a valid command issues its request, and the
\* request comes after every request issued before: the requests made so far
\* keep their places, the new one is the last, it belongs to the receiving
\* connection and carries the command's action and key, and it is sent to the
\* target of that moment; no other step issues a request.
C37_IssuedInOrderOfReceipt ==
  /\ [][\A c \in DOMAIN conns, m \in CmdFrames :
          (ActionOk(m) /\ KeyOk(m) /\ HandleMessage(c, m)) =>
            /\ Len(requests') = Len(requests) + 1
            /\ SubSeq(requests', 1, Len(requests)) = requests
            /\ requests'[Len(requests')].conn = c
            /\ requests'[Len(requests')].path = <<m.action, m.key>>
            /\ activeRokuIp \in RokuIps =>
                 /\ requests'[Len(requests')].hostname = activeRokuIp
                 /\ requests'[Len(requests')].attempts = 1
                 /\ requests'[Len(requests')].promise.state = "pending"]_vars
  /\ [][Len(requests') # Len(requests) =>
          \E c \in DOMAIN conns, m \in Frames : HandleMessage(c, m)]_vars

C37_Witness ==
  /\ Len(requests) = 2
  /\ requests[1].conn # requests[2].conn
  /\ requests[1].attempts = 1 /\ requests[2].attempts = 1
  /\ requests[1].promise.state = "pending"
  /\ requests[2].promise.state = "fulfilled"

\* C39: a frame handled on a connection that a newer connection of its
\* identity has evicted issues no downstream request and leaves the target
\* as it is.
C39_EvictedIsInert ==
  [][\A c \in DOMAIN conns, m \in Frames :
       (conns[c].evicted /\ HandleMessage(c, m)) =>
         /\ \A r \in DOMAIN requests' :
              r \notin DOMAIN requests => requests'[r].attempts = 0
         /\ activeRokuIp' = activeRokuIp]_vars

\* C40: wsRef is null or the socket created last, and the close event of a
\* socket other than wsRef leaves wsRef as it is.
C40_ActiveIsNewest ==
  /\ [](wsRef = 0 \/ wsRef = Len(sockets))
  /\ [][\A s \in DOMAIN sockets :
          (s # wsRef /\ \E failed \in BOOLEAN : SocketClosed(s, failed)) =>
            wsRef' = wsRef]_vars

C40_Witness ==
  /\ Len(sockets) = 2
  /\ sockets[1].readyState = CLOSED /\ ~sockets[1].lost
  /\ wsRef = 2
  /\ sockets[2].readyState = OPEN

\* C38: the status agrees with the sockets: when the active socket is OPEN
\* (its open handler has run) the status is connected, and when the status
\* is connecting a socket of the session is CONNECTING.
C38_StatusAgrees ==
  /\ ActiveOpen => status = "connected"
  /\ status = "connecting" => Connecting # {}

\* C36: after a change of the server address to a non-empty value a
\* connection attempt to the new address is made: when the effect has run
\* and nothing is left to happen (no socket is CONNECTING or CLOSING, no
\* timer is pending), a socket has been created for the current address.
C36_NewAddressIsTried ==
  (/\ mounted
   /\ effectUrl = serverUrl
   /\ serverUrl # ""
   /\ PendingTimers = {}
   /\ \A s \in DOMAIN sockets : sockets[s].readyState \notin {CONNECTING, CLOSING}) =>
     \E s \in DOMAIN sockets : sockets[s].url = serverUrl

\* the relay answers the frame it takes from connection c in this step with
\* the error "No Roku IP configured", written to a connection that is open at
\* both ends
AnswersNoIp(c) ==
  /\ Len(sent'[c]) > Len(sent[c])
  /\ sent'[c][Len(sent'[c])].message = NoIpError
  /\ sent'[c][Len(sent'[c])].delivered
  /\ sockets[link[c].sock].readyState = OPEN

\* C34: end to end, a command that the hook sent with sendKey while its local
\* target was not empty is never answered with the error "Roku unreachable: No
\* Roku IP configured", the frames of each connection being handled in the
\* order they were sent.
C34_CommandFindsTarget ==
  [][\A c \in DOMAIN link :
       (/\ link[c].mgr = 1
        /\ Deliver(c)
        /\ sockets[link[c].sock].out[link[c].taken + 1].type = Undefined
        /\ note[link[c].sock][link[c].taken + 1] # NoIp) =>
          ~AnswersNoIp(c)]_vars

\* the registry evicts a connection in this step (server.js:123-126)
EvictsNow == \E c \in DOMAIN conns : conns'[c].evicted /\ ~conns[c].evicted

\* a hook schedules a reconnect in this step (part_002:148-159)
SchedulesNow ==
  \/ Len(timers') > Len(timers)
  \/ Len(other.timers') > Len(other.timers)

\* nothing is left that leads to an eviction or to a reconnect: no hook has a
\* pending reconnect timer or a socket that is still connecting, and the
\* close event of every evicted connection has fired in its hook
Settled ==
  /\ \A k \in {1, 2} : \A s \in DOMAIN SocketsOf(k) :
       SocketsOf(k)[s].readyState # CONNECTING
  /\ \A t \in DOMAIN timers : timers[t].state # "pending"
  /\ \A t \in DOMAIN other.timers : other.timers[t].state # "pending"
  /\ \A c \in DOMAIN link :
       conns[c].evicted =>
         SocketsOf(link[c].mgr)[link[c].sock].readyState = CLOSED

\* C35: two hooks that reach the relay from the same address do not churn
\* forever. Over the connections a run covers: by the time the relay has
\* accepted all but the last of them, the point is reached after which no
\* connection is evicted and no hook schedules a reconnect.
C35_ChurnEnds ==
  [][(work.peers > 0 /\ Len(conns) >= MaxDuoConns - 1) =>
       (~EvictsNow /\ ~SchedulesNow)]_vars

\* with both hooks connected no run comes to rest while the relay still
\* accepts connections: the churn goes on in every run, not in some
C35_NoRunRests ==
  (work.peers > 0 /\ Len(conns) >= 2 /\ load.conns > 0) => ~Settled

====
